---- MODULE Spec2Model ----
(***************************************************************************)
(* The NFC attack simulator dashboard: the component state of App, the     *)
(* scripted progression startSimulation (an async function suspended on    *)
(* five timers), the analysis request handleAnalyze / analyzeNFCLogs and   *)
(* resetSimulator.  Time is counted in milliseconds and advances in steps  *)
(* of Quantum, the greatest common divisor of the scripted delays.         *)
(***************************************************************************)
EXTENDS Integers, Sequences, FiniteSets, TLC

VARIABLES
    state,          \* useState<ATMAttackState>
    logs,           \* useState<LogEntry[]>
    selectedAmount, \* useState<number>
    analysis,       \* useState<AnalysisResult | null>
    isAnalyzing,    \* useState(false)
    runs,           \* the startSimulation calls, in the order they were started
    requests,       \* the handleAnalyze calls suspended on analyzeNFCLogs
    now,            \* Date.now(), in ms since the page was loaded
    commands,       \* history: how many user commands were issued so far
    lastOp          \* history: the handler that ran last, with what it saw

vars == <<state, logs, selectedAmount, analysis, isAnalyzing, runs, requests,
          now, commands, lastOp>>

----------------------------------------------------------------------------
(* Bounds of the model *)

MaxCommands == 3    \* the user issues at most this many commands
MaxTicks == 20      \* the clock stops after this many quanta
MaxLatency == 1     \* the service settles a request within this many quanta

----------------------------------------------------------------------------
(* types.ts *)

ATMAttackState ==
    {"IDLE", "SCANNING", "CARD_DETECTED", "PIN_BYPASS", "AMOUNT_SELECTION",
     "TRANSACTION_PROCESSING", "COMPLETED", "FAILED"}

Levels == {"INFO", "WARNING", "ERROR", "SUCCESS"}

AnalysisFields == {"vulnerabilityScore", "threatType", "recommendations", "summary"}

\* the value null of "AnalysisResult | null"
NULL == [null |-> TRUE]

\* the data argument left out of a call of addLog
NoData == <<>>

----------------------------------------------------------------------------
(* The script of startSimulation *)

\* the setTimeout delays, in ms, in the order they are awaited
Delays == <<2000, 1500, 2000, 1500, 2500>>

Quantum == 500

\* Math.floor(Math.random() * 200) + 20 lies in 20..219: both ends of the range
Amounts == {20, 219}

\* pc of a run that is past its last statement
Done == Len(Delays) + 1

RECURSIVE SumFrom(_, _)
SumFrom(s, k) == IF k > Len(s) THEN 0 ELSE s[k] + SumFrom(s, k + 1)

\* the time from the call of startSimulation to its last statement
RunDuration == SumFrom(Delays, 1)

\* the end of the time the model covers
Horizon == MaxTicks * Quantum

----------------------------------------------------------------------------
(* analyzeNFCLogs and the service *)

PayloadA ==
    [vulnerabilityScore |-> 85, threatType |-> "PIN Bypass",
     recommendations |-> <<"Enforce online PIN">>, summary |-> "CVM downgrade"]

PayloadB ==
    [vulnerabilityScore |-> 30, threatType |-> "Relay Attack",
     recommendations |-> <<"Distance bounding", "Limit offline amounts">>,
     summary |-> "Relay suspected"]

\* an object the schema does not accept: recommendations and summary are missing
PayloadPartial == [vulnerabilityScore |-> 40, threatType |-> "Unknown"]

\* JSON.parse('{}')
EmptyObject == <<>>

Fallback ==
    [vulnerabilityScore |-> 0, threatType |-> "Analysis Failed",
     recommendations |-> <<"Ensure API connectivity", "Check log formatting">>,
     summary |-> "Could not generate analysis at this time."]

JSONValues == {PayloadA, PayloadB, PayloadPartial, EmptyObject}

\* the JSON text of a value
JSONStringify(v) ==
    CASE v = PayloadA ->
           "{\"vulnerabilityScore\":85,\"threatType\":\"PIN Bypass\",\"recommendations\":[\"Enforce online PIN\"],\"summary\":\"CVM downgrade\"}"
      [] v = PayloadB ->
           "{\"vulnerabilityScore\":30,\"threatType\":\"Relay Attack\",\"recommendations\":[\"Distance bounding\",\"Limit offline amounts\"],\"summary\":\"Relay suspected\"}"
      [] v = PayloadPartial ->
           "{\"vulnerabilityScore\":40,\"threatType\":\"Unknown\"}"
      [] v = EmptyObject -> "{}"

\* JSON.parse: the value a text denotes, or a SyntaxError
JSONParse(text) ==
    IF \E v \in JSONValues : JSONStringify(v) = text
    THEN [ok |-> TRUE, value |-> CHOOSE v \in JSONValues : JSONStringify(v) = text]
    ELSE [ok |-> FALSE, value |-> NULL]

\* what the service may send as response.text
Texts ==
    {JSONStringify(PayloadA), JSONStringify(PayloadB), JSONStringify(PayloadPartial),
     "", "503 Service Unavailable"}

\* the outcomes of ai.models.generateContent: it rejects, or it resolves to a
\* response whose text is undefined or one of Texts
Responses ==
    {[threw |-> TRUE, hasText |-> FALSE, text |-> ""]}
    \cup {[threw |-> FALSE, hasText |-> FALSE, text |-> ""]}
    \cup {[threw |-> FALSE, hasText |-> TRUE, text |-> t] : t \in Texts}

\* response.text || '{}'
TextOrDefault(response) ==
    IF response.hasText /\ response.text # "" THEN response.text ELSE "{}"

\* analyzeNFCLogs with the parsed value dropped: the fallback whatever was sent
analyzeNFCLogsDropsPayload(response) ==
    [threw |-> response.threw, value |-> IF response.threw THEN NULL ELSE Fallback]

\* analyzeNFCLogs, given the outcome of generateContent: the await is outside the
\* try, so a rejection leaves the function as a rejection
analyzeNFCLogs(response) ==
    IF response.threw
    THEN [threw |-> TRUE, value |-> NULL]
    ELSE LET parsed == JSONParse(TextOrDefault(response))
         IN  IF parsed.ok
             THEN [threw |-> FALSE, value |-> parsed.value]
             ELSE [threw |-> FALSE, value |-> Fallback]

----------------------------------------------------------------------------
(* The component *)

\* addLog replacing the log sequence by the new entry: setLogs([newLog])
addLogReplaces(prev, message, level, data) ==
    <<[timestamp |-> now, level |-> level, message |-> message, data |-> data]>>

\* addLog putting the new entry first: setLogs(prev => [newLog, ...prev])
addLogPrepends(prev, message, level, data) ==
    <<[timestamp |-> now, level |-> level, message |-> message, data |-> data]>>
        \o prev

\* setLogs(prev => [...prev, newLog]) with the entry addLog builds
addLog(prev, message, level, data) ==
    Append(prev, [timestamp |-> now, level |-> level, message |-> message,
                  data |-> data])

Init ==
    /\ state = "IDLE"
    /\ logs = <<>>
    /\ selectedAmount = 0
    /\ analysis = NULL
    /\ isAnalyzing = FALSE
    /\ runs = <<>>
    /\ requests = <<>>
    /\ now = 0
    /\ commands = 0
    /\ lastOp = [op |-> "init"]

\* the START SIMULATION button never disabled
StartAlwaysEnabled == TRUE

\* disabled={state !== ATMAttackState.IDLE}
StartEnabled == state = "IDLE"

\* the analysis button disabled on an empty log only
AnalyzeEnabledWhileAnalyzing == ~(Len(logs) = 0)

\* disabled={logs.length === 0 || isAnalyzing}
AnalyzeEnabled == ~(Len(logs) = 0 \/ isAnalyzing)

\* startSimulation without its first addLog
startSimulationSilent ==
    /\ analysis' = NULL
    /\ state' = "SCANNING"
    /\ runs' = Append(runs, [pc |-> 1, due |-> now + Delays[1], amount |-> 0])
    /\ UNCHANGED <<logs, selectedAmount, isAnalyzing, requests, now>>

\* startSimulation up to its first await
startSimulation ==
    /\ analysis' = NULL
    /\ state' = "SCANNING"
    /\ logs' = addLog(logs, <<"NFC Controller initialized. Listening for targets...">>,
                      "INFO", NoData)
    /\ runs' = Append(runs, [pc |-> 1, due |-> now + Delays[1], amount |-> 0])
    /\ UNCHANGED <<selectedAmount, isAnalyzing, requests, now>>

\* a click on START SIMULATION; a run that could not end before the horizon
\* is not started
Start ==
    /\ StartEnabled
    /\ commands < MaxCommands
    /\ now + RunDuration <= Horizon
    /\ startSimulation
    /\ commands' = commands + 1
    /\ lastOp' = [op |-> "start"]

\* a timer that a reset cancels: it does not fire while the state is idle
TimerFiresUnlessIdle(i) ==
    /\ state # "IDLE"
    /\ runs[i].pc < Done
    /\ runs[i].due <= now
    /\ \A j \in 1..(i - 1) : ~(runs[j].pc = runs[i].pc /\ runs[j].due <= now)

\* the timer of run i may fire: it is due, and no run started earlier waits at
\* the same await with a timer that is due as well
TimerFires(i) ==
    /\ runs[i].pc < Done
    /\ runs[i].due <= now
    /\ \A j \in 1..(i - 1) : ~(runs[j].pc = runs[i].pc /\ runs[j].due <= now)

\* the closing log interpolating the selected amount kept in the component
\* state instead of the run's own constant
ClosingAmountFromState(i) == selectedAmount

\* ${amount} in the closing log: the constant of run i
ClosingAmount(i) == runs[i].amount

\* startSimulation of run i from one await to the next (or to its end)
Resume(i) ==
    /\ TimerFires(i)
    /\ LET pc == runs[i].pc
           next(amount) ==
               [pc |-> pc + 1,
                due |-> IF pc + 1 < Done THEN now + Delays[pc + 1] ELSE runs[i].due,
                amount |-> amount]
       IN  CASE pc = 1 ->
                  /\ state' = "CARD_DETECTED"
                  /\ logs' = addLog(logs, <<"Target Card Detected: ISO/IEC 14443 Type A">>,
                                    "SUCCESS", <<"uid", "04:A2:F1:C9">>)
                  /\ runs' = [runs EXCEPT ![i] = next(0)]
                  /\ UNCHANGED selectedAmount
             [] pc = 2 ->
                  /\ state' = "PIN_BYPASS"
                  /\ logs' = addLog(logs,
                         <<"Executing PIN Bypass Payload (Modifying 0x9F34 CVM Results)...">>,
                         "WARNING", NoData)
                  /\ runs' = [runs EXCEPT ![i] = next(0)]
                  /\ UNCHANGED selectedAmount
             [] pc = 3 ->
                  \E amount \in Amounts :
                      /\ state' = "AMOUNT_SELECTION"
                      /\ selectedAmount' = amount
                      /\ logs' = addLog(
                             addLog(logs,
                                 <<"CVM verification bypassed. Authorized for Offline PIN.">>,
                                 "SUCCESS", NoData),
                             <<"Force-selecting withdrawal amount: $", amount>>,
                             "INFO", NoData)
                      /\ runs' = [runs EXCEPT ![i] = next(amount)]
             [] pc = 4 ->
                  /\ state' = "TRANSACTION_PROCESSING"
                  /\ logs' = addLog(logs, <<"Broadcasting encrypted payload to reader...">>,
                                    "INFO", NoData)
                  /\ runs' = [runs EXCEPT ![i] = next(runs[i].amount)]
                  /\ UNCHANGED selectedAmount
             [] pc = 5 ->
                  /\ state' = "COMPLETED"
                  /\ logs' = addLog(logs,
                         <<"Simulation complete. Transaction accepted by mock gateway. Total: $",
                           ClosingAmount(i)>>,
                         "SUCCESS", NoData)
                  /\ runs' = [runs EXCEPT ![i] = next(runs[i].amount)]
                  /\ UNCHANGED selectedAmount
    /\ UNCHANGED <<analysis, isAnalyzing, requests, now, commands>>
    /\ lastOp' = [op |-> "resume", run |-> i, pc |-> runs[i].pc]

\* resetSimulator without setSelectedAmount(0)
resetSimulatorKeepsAmount ==
    /\ state' = "IDLE"
    /\ logs' = <<>>
    /\ analysis' = NULL
    /\ UNCHANGED <<selectedAmount, isAnalyzing, runs, requests, now>>

\* resetSimulator dropping the suspended runs with their timers
resetSimulatorCancelsRuns ==
    /\ state' = "IDLE"
    /\ logs' = <<>>
    /\ selectedAmount' = 0
    /\ analysis' = NULL
    /\ runs' = <<>>
    /\ UNCHANGED <<isAnalyzing, requests, now>>

\* resetSimulator
resetSimulator ==
    /\ state' = "IDLE"
    /\ logs' = <<>>
    /\ selectedAmount' = 0
    /\ analysis' = NULL
    /\ UNCHANGED <<isAnalyzing, runs, requests, now>>

\* a click on the power-off button
Reset ==
    /\ commands < MaxCommands
    /\ resetSimulator
    /\ commands' = commands + 1
    /\ lastOp' = [op |-> "reset"]

\* handleAnalyze without its guard on the empty log sequence
handleAnalyzeUnguarded ==
    /\ isAnalyzing' = TRUE
    /\ requests' = Append(requests, [logs |-> logs, sent |-> now])

\* handleAnalyze up to its await
handleAnalyze ==
    IF Len(logs) = 0
    THEN UNCHANGED <<isAnalyzing, requests>>
    ELSE /\ isAnalyzing' = TRUE
         /\ requests' = Append(requests, [logs |-> logs, sent |-> now])

\* a click on AI VULNERABILITY ANALYSIS
Analyze ==
    /\ AnalyzeEnabled
    /\ commands < MaxCommands
    /\ handleAnalyze
    /\ UNCHANGED <<state, logs, selectedAmount, analysis, runs, now>>
    /\ commands' = commands + 1
    /\ lastOp' = [op |-> "analyze", empty |-> FALSE]

\* handleAnalyze called while the log sequence is empty: the button is
\* disabled then, and the handler has a guard of its own
AnalyzeOnEmpty ==
    /\ Len(logs) = 0
    /\ commands < MaxCommands
    /\ handleAnalyze
    /\ UNCHANGED <<state, logs, selectedAmount, analysis, runs, now>>
    /\ commands' = commands + 1
    /\ lastOp' = [op |-> "analyze", empty |-> TRUE]

\* a sequence without its k-th element
Remove(s, k) == SubSeq(s, 1, k - 1) \o SubSeq(s, k + 1, Len(s))

\* handleAnalyze with setIsAnalyzing(false) at the end of the try block instead
\* of in finally
SettleKeepsFlagOnError(k, response) ==
    LET result == analyzeNFCLogs(response)
    IN  /\ IF result.threw
           THEN /\ logs' = addLog(logs, <<"Failed to analyze logs with Gemini.">>,
                                  "ERROR", NoData)
                /\ UNCHANGED <<analysis, isAnalyzing>>
           ELSE /\ analysis' = result.value
                /\ logs' = addLog(logs, <<"Gemini AI Analysis complete.">>,
                                  "SUCCESS", NoData)
                /\ isAnalyzing' = FALSE
        /\ requests' = Remove(requests, k)
        /\ UNCHANGED <<state, selectedAmount, runs, now, commands>>
        /\ lastOp' = [op |-> "settle", response |-> response, result |-> result,
                      before |-> analysis]

\* handleAnalyze marking the attack as failed when the analysis throws
SettleMarksFailed(k, response) ==
    LET result == analyzeNFCLogs(response)
    IN  /\ IF result.threw
           THEN /\ logs' = addLog(logs, <<"Failed to analyze logs with Gemini.">>,
                                  "ERROR", NoData)
                /\ state' = "FAILED"
                /\ UNCHANGED analysis
           ELSE /\ analysis' = result.value
                /\ logs' = addLog(logs, <<"Gemini AI Analysis complete.">>,
                                  "SUCCESS", NoData)
                /\ UNCHANGED state
        /\ isAnalyzing' = FALSE
        /\ requests' = Remove(requests, k)
        /\ UNCHANGED <<selectedAmount, runs, now, commands>>
        /\ lastOp' = [op |-> "settle", response |-> response, result |-> result,
                      before |-> analysis]

\* handleAnalyze of request k from its await on: generateContent has settled
\* with `response`
Settle(k, response) ==
    LET result == analyzeNFCLogs(response)
    IN  /\ IF result.threw
           THEN /\ logs' = addLog(logs, <<"Failed to analyze logs with Gemini.">>,
                                  "ERROR", NoData)
                /\ UNCHANGED analysis
           ELSE /\ analysis' = result.value
                /\ logs' = addLog(logs, <<"Gemini AI Analysis complete.">>,
                                  "SUCCESS", NoData)
        /\ isAnalyzing' = FALSE
        /\ requests' = Remove(requests, k)
        /\ UNCHANGED <<state, selectedAmount, runs, now, commands>>
        /\ lastOp' = [op |-> "settle", response |-> response, result |-> result,
                      before |-> analysis]

\* the service answers, or the call fails
Respond == \E k \in 1..Len(requests) : \E response \in Responses : Settle(k, response)

\* a timer fires
Timer == \E i \in 1..Len(runs) : Resume(i)

\* time passes while a timer or a request is pending (while nothing is pending
\* only the clock would change); a timer that is due fires before time moves on
Tick ==
    /\ (\E i \in 1..Len(runs) : runs[i].pc < Done) \/ requests # <<>>
    /\ \A i \in 1..Len(runs) : runs[i].pc < Done => runs[i].due > now
    /\ \A k \in 1..Len(requests) : now < requests[k].sent + MaxLatency * Quantum
    /\ now < Horizon
    /\ now' = now + Quantum
    /\ UNCHANGED <<state, logs, selectedAmount, analysis, isAnalyzing, runs,
                   requests, commands>>
    /\ lastOp' = [op |-> "tick"]

Next == Start \/ Timer \/ Reset \/ Analyze \/ AnalyzeOnEmpty \/ Respond \/ Tick

Spec == Init /\ [][Next]_vars

\* the event loop runs every timer that is due, time passes, and the call of
\* the service ends (it returns or it fails)
FairSpec == Spec /\ WF_vars(Timer) /\ WF_vars(Tick) /\ WF_vars(Respond)

----------------------------------------------------------------------------
(* The claims *)

\* the fixed order of the stages
Stages ==
    <<"IDLE", "SCANNING", "CARD_DETECTED", "PIN_BYPASS", "AMOUNT_SELECTION",
      "TRANSACTION_PROCESSING", "COMPLETED">>

\* the stage after stage s in the fixed order; COMPLETED and FAILED have none
NextStage(s) ==
    IF \E k \in 1..(Len(Stages) - 1) : Stages[k] = s
    THEN Stages[(CHOOSE k \in 1..(Len(Stages) - 1) : Stages[k] = s) + 1]
    ELSE "none"

\* the last entry of the log sequence
LastLog == logs[Len(logs)]

\* the only command issued so far is one start, and that run is past its end
SingleRunCompleted == commands = 1 /\ Len(runs) = 1 /\ runs[1].pc = Done

\* C1: every change of the current attack state is a reset to idle or a move to
\* the immediately next stage of the fixed order.
C1_ResetOrNextStage ==
    [][state' # state => (state' = "IDLE" \/ state' = NextStage(state))]_vars

\* C2 as stated: after a single run and no other command, the log sequence has
\* exactly 6 entries and the state is completed.
C2_SixEntries == SingleRunCompleted => (Len(logs) = 6 /\ state = "COMPLETED")

\* C2 amended: after a single run and no other command, the log sequence has
\* exactly 7 entries (the step that enters amount-selection appends two) and the
\* state is completed.
C2_SevenEntries == SingleRunCompleted => (Len(logs) = 7 /\ state = "COMPLETED")

C2_Witness == SingleRunCompleted

\* C3: the state is idle initially, and a run is started only in a state whose
\* current attack state is idle.
C3_StartOnlyFromIdle ==
    /\ state = "IDLE"
    /\ [][Len(runs') > Len(runs) => state = "IDLE"]_vars

\* a second run has just been started while the first one is still suspended
C3_Witness == lastOp.op = "start" /\ Len(runs) = 2 /\ runs[1].pc < Done

\* C4: the state right after a reset is idle, with an empty log sequence, no
\* analysis result and selected amount 0.
C4_ResetRestores ==
    lastOp.op = "reset" =>
        (state = "IDLE" /\ logs = <<>> /\ analysis = NULL /\ selectedAmount = 0)

\* a reset in the middle of a run that has selected an amount, with an analysis
\* request in flight
C4_Witness ==
    /\ lastOp.op = "reset"
    /\ requests # <<>>
    /\ \E i \in 1..Len(runs) : runs[i].pc < Done /\ runs[i].amount > 0

C6_ThrowYieldsFallback ==
    (lastOp.op = "settle" /\ lastOp.response.threw) =>
        (~lastOp.result.threw /\ lastOp.result.value = Fallback)

\* the response of the service counts as a failure: the call threw, or its text
\* is no JSON
ServiceFailed(response) ==
    \/ response.threw
    \/ response.hasText /\ response.text # "" /\ ~JSONParse(response.text).ok

\* C7: after a request that ended in a failure of the service, the analysis
\* result is the fallback record and the last log entry is of level ERROR.
C7_FailureRecovered ==
    (lastOp.op = "settle" /\ ServiceFailed(lastOp.response)) =>
        (analysis = Fallback /\ LastLog.level = "ERROR")

\* the text of a response is absent (undefined or empty) or no JSON
MalformedOrAbsent(response) ==
    /\ ~response.threw
    /\ \/ ~response.hasText
       \/ response.text = ""
       \/ ~JSONParse(response.text).ok

\* C8: when the service responds with a text that is malformed or absent,
\* analyzeNFCLogs returns the fallback record.
C8_MalformedOrAbsentYieldsFallback ==
    (lastOp.op = "settle" /\ MalformedOrAbsent(lastOp.response)) =>
        (~lastOp.result.threw /\ lastOp.result.value = Fallback)

\* the payloads that have all four fields of the schema
SchemaValid == {v \in JSONValues : DOMAIN v = AnalysisFields}

\* C9: when the service returns the text of a schema-valid payload,
\* analyzeNFCLogs returns that payload and it is the analysis result, whatever
\* the analysis result was before.
C9_ValidPayloadStored ==
    \A p \in SchemaValid :
        (/\ lastOp.op = "settle"
         /\ ~lastOp.response.threw
         /\ lastOp.response.hasText
         /\ lastOp.response.text = JSONStringify(p)) =>
            (lastOp.result = [threw |-> FALSE, value |-> p] /\ analysis = p)

\* a schema-valid payload has just replaced another analysis result
C9_Witness ==
    /\ lastOp.op = "settle"
    /\ analysis \in SchemaValid
    /\ lastOp.before # NULL
    /\ lastOp.before # analysis

\* C10: handleAnalyze called on an empty log sequence sends no request and
\* leaves the analysis result, the log sequence and the in-flight flag as they
\* were.
C10_AnalyzeOnEmptyIsNoOp ==
    [][(lastOp'.op = "analyze" /\ Len(logs) = 0) =>
           UNCHANGED <<requests, analysis, logs, isAnalyzing>>]_vars

\* handleAnalyze has just been called on the emptied log of a started run
C10_Witness ==
    /\ lastOp.op = "analyze"
    /\ lastOp.empty
    /\ logs = <<>>
    /\ runs # <<>>

\* the amount interpolated into the message of a log entry
AmountIn(entry) == entry.message[2]

\* C11: a run chooses its amount once, at its amount-selection step, where it
\* logs it and stores it as the selected amount; the amount of the run never
\* changes afterwards, and the closing log of the run carries it.
C11_ClosingAmountIsSelected ==
    [][\A i \in 1..Len(runs) :
          /\ (runs[i].pc = 3 /\ runs'[i].pc = 4) =>
                 /\ runs'[i].amount \in Amounts
                 /\ AmountIn(logs'[Len(logs')]) = runs'[i].amount
                 /\ selectedAmount' = runs'[i].amount
          /\ runs[i].pc # 3 => runs'[i].amount = runs[i].amount
          /\ (runs[i].pc = 5 /\ runs'[i].pc = Done) =>
                 /\ logs'[Len(logs')].level = "SUCCESS"
                 /\ AmountIn(logs'[Len(logs')]) = runs[i].amount]_vars

\* the first of two runs with different amounts has just appended its closing
\* log, after a reset and after the second run selected its amount
C11_Witness ==
    /\ lastOp.op = "resume" /\ lastOp.pc = 5 /\ lastOp.run = 1
    /\ Len(runs) = 2
    /\ runs[2].pc > 3
    /\ runs[1].amount # runs[2].amount
    /\ AmountIn(LastLog) = runs[1].amount

\* sequence s is the beginning of sequence t
IsPrefix(s, t) == Len(s) <= Len(t) /\ SubSeq(t, 1, Len(s)) = s

\* C12: an append makes the log sequence one longer, with the new entry last
\* and the entries before it unchanged; and no step other than a reset removes
\* or changes an entry of the log sequence.
C12_AppendOnly ==
    /\ [](LET appended == addLog(logs, <<"message">>, "INFO", NoData)
          IN  /\ Len(appended) = Len(logs) + 1
              /\ IsPrefix(logs, appended)
              /\ appended[Len(appended)].message = <<"message">>
              /\ appended[Len(appended)].timestamp = now)
    /\ [][lastOp'.op # "reset" => IsPrefix(logs, logs')]_vars

\* a run has appended to a log sequence that a reset had cleared and that an
\* analysis had appended to
C12_Witness ==
    /\ lastOp.op = "resume"
    /\ commands = 3
    /\ logs[1].message # <<"NFC Controller initialized. Listening for targets...">>
    /\ \E k \in 1..(Len(logs) - 1) : logs[k].message = <<"Gemini AI Analysis complete.">>

\* C13: the analysis result is absent or a record with all four fields.
C13_AbsentOrComplete == analysis = NULL \/ DOMAIN analysis = AnalysisFields

\* C14: the current attack state is one of the eight values, and never failed.
C14_NeverFailed == state \in ATMAttackState /\ state # "FAILED"

\* an analysis that threw has just ended in the middle of a run that goes on
\* after a reset
C14_Witness ==
    /\ lastOp.op = "settle"
    /\ lastOp.response.threw
    /\ commands = 3
    /\ state \notin {"IDLE", "COMPLETED"}
    /\ logs[1].message # <<"NFC Controller initialized. Listening for targets...">>

\* C15: the timestamps of the log sequence never decrease along the sequence.
C15_TimestampsMonotonic ==
    \A j \in 1..Len(logs) : \A k \in j..Len(logs) :
        logs[j].timestamp <= logs[k].timestamp

\* the log sequence holds the entries of two overlapping runs that were
\* started at different times, interleaved
C15_Witness ==
    /\ Len(runs) = 2
    /\ Cardinality({logs[k].timestamp : k \in 1..Len(logs)}) >= 4
    /\ \E j, k \in 1..Len(logs) :
           /\ j < k
           /\ logs[j].level = "WARNING" /\ logs[k].level = "WARNING"
           /\ logs[j].timestamp < logs[k].timestamp

\* the log sequence was reset and has entries again: its first entry is not the
\* first entry of a run
WasReset ==
    /\ logs # <<>>
    /\ logs[1].message # <<"NFC Controller initialized. Listening for targets...">>

\* some run is suspended on a timer
RunPending == \E i \in 1..Len(runs) : runs[i].pc < Done

\* C16: a reset leaves the suspended runs and their timers as they are; a
\* timer that is due can fire whatever the state is, also right after a reset;
\* and a run that resumes sets a stage and appends to the log sequence, so the
\* state leaves idle and the cleared log sequence gets entries.
C16_ResetDoesNotCancel ==
    /\ [][lastOp'.op = "reset" => runs' = runs]_vars
    /\ []((\E i \in 1..Len(runs) : runs[i].pc < Done /\ runs[i].due <= now)
              => ENABLED Timer)
    /\ [][lastOp'.op = "resume" => (state' # "IDLE" /\ Len(logs') > Len(logs))]_vars

\* after a start and a reset and no other command, the run has resumed
C16_Witness ==
    /\ commands = 2
    /\ Len(runs) = 1
    /\ WasReset
    /\ lastOp.op = "resume"
    /\ state # "IDLE"
    /\ logs # <<>>

\* C17: at most one run is in progress (started and not past its last step).
C17_AtMostOneRun == Cardinality({i \in 1..Len(runs) : runs[i].pc < Done}) <= 1

\* C18: when a request settles that was sent before a reset, the analysis
\* result stays absent and the cleared log sequence gets no entry.
C18_StaleResponseIgnored ==
    [][\A k \in 1..Len(requests) :
          (/\ lastOp'.op = "settle"
           /\ requests' = Remove(requests, k)
           /\ ~IsPrefix(requests[k].logs, logs)) =>
              (analysis' = NULL /\ logs' = logs)]_vars

\* C19: every run that was started gets past its last step, and that step sets
\* the state to completed and appends the closing SUCCESS log.
C19_RunsComplete ==
    /\ \A i \in 1..MaxCommands :
           (Len(runs) >= i) ~> (Len(runs) >= i /\ runs[i].pc = Done)
    /\ [][\A i \in 1..Len(runs) :
             (runs[i].pc < Done /\ runs'[i].pc = Done) =>
                 /\ state' = "COMPLETED"
                 /\ Len(logs') = Len(logs) + 1
                 /\ logs'[Len(logs')].level = "SUCCESS"
                 /\ AmountIn(logs'[Len(logs')]) = runs[i].amount]_vars

\* a run has just executed its last step after a reset and an analysis
C19_Witness ==
    /\ lastOp.op = "resume" /\ lastOp.pc = 5
    /\ commands = 3
    /\ Len(runs) = 1
    /\ WasReset
    /\ state = "COMPLETED"

\* C20: a request that is accepted sets the in-flight flag; the step that ends
\* it, on return and on failure alike, clears the flag and appends exactly one
\* entry, SUCCESS on return and ERROR on failure; the flag is set exactly while a
\* request is in flight, so no request that has ended leaves it set.
C20_FlagClearedWhenSettled ==
    /\ [](isAnalyzing <=> requests # <<>>)
    /\ [][Len(requests') > Len(requests) => isAnalyzing']_vars
    /\ [][lastOp'.op = "settle" =>
             /\ ~isAnalyzing'
             /\ Len(logs') = Len(logs) + 1
             /\ logs'[Len(logs')].level =
                    IF lastOp'.response.threw THEN "ERROR" ELSE "SUCCESS"]_vars

\* a request has just ended in a failure, and the analyze button is enabled
C20_Witness ==
    /\ lastOp.op = "settle"
    /\ lastOp.response.threw
    /\ LastLog.level = "ERROR"
    /\ ~isAnalyzing
    /\ AnalyzeEnabled

====
